---- MODULE Spec2Model ----
(***************************************************************************)
(* Model of lib/plugin.js: the plugin loader of the test runner.           *)
(*                                                                         *)
(* The source holds two PluginLoader classes: the registry-based one       *)
(* (definitions with validate/finalize, lines 39-172) and the name-list    *)
(* one (pluginNames + pluginValidators + aggregateRootHooks, lines         *)
(* 211-347).  The variable `loader` says which class the loader object was *)
(* constructed from; each class has its own constructor, load and finalize *)
(* actions.                                                                *)
(***************************************************************************)
EXTENDS Integers, Sequences, FiniteSets, TLC

(***************************************************************************)
(* Bounds of the model.                                                    *)
(***************************************************************************)
MaxLoads == 2
MaxHooks == 4

(***************************************************************************)
(* JavaScript values.                                                      *)
(***************************************************************************)
Undefined == [t |-> "undefined"]
Null == [t |-> "null"]
Num(n) == [t |-> "number", n |-> n]
Fn(id) == [t |-> "function", id |-> id]
Arr(items) == [t |-> "array", items |-> items]
Obj(props) == [t |-> "object", props |-> props]
NoProps == [k \in {} |-> Undefined]

\* requiredModule[pluginName]: property read; a missing property or a read
\* on a primitive gives undefined
Get(o, k) ==
  IF o.t = "object" /\ k \in DOMAIN o.props THEN o.props[k] ELSE Undefined

\* truthiness as tested by `if (impl)` and `requiredModule && ...`
Truthy(v) ==
  /\ v.t \notin {"undefined", "null"}
  /\ ~(v.t = "number" /\ v.n = 0)

\* the typeof operator
TypeOf(v) ==
  CASE v.t = "undefined" -> "undefined"
    [] v.t = "number" -> "number"
    [] v.t = "function" -> "function"
    [] OTHER -> "object"

IsArray(v) == v.t = "array"

\* utils.castArray: a bare function or single object becomes a one-element
\* sequence, an array is used as it is
castArray(v) == IF IsArray(v) THEN v.items ELSE <<v>>

(***************************************************************************)
(* Insertion-ordered Map (this.registered, this.loaded, this.pluginMap):   *)
(* a sequence of entries [key, value] with pairwise distinct keys.         *)
(***************************************************************************)
EmptyMap == <<>>
MapKeys(m) == [i \in 1..Len(m) |-> m[i].key]
MapHas(m, k) == \E i \in 1..Len(m) : m[i].key = k
MapGet(m, k) ==
  IF MapHas(m, k) THEN m[CHOOSE i \in 1..Len(m) : m[i].key = k].value
  ELSE Undefined
\* (mutation) the entries share one array: setting one sets them all
MapSetShared(m, k, v) ==
  IF MapHas(m, k)
  THEN [i \in 1..Len(m) |-> [key |-> m[i].key, value |-> v]]
  ELSE Append(m, [key |-> k, value |-> v])

MapSet(m, k, v) ==
  IF MapHas(m, k)
  THEN [i \in 1..Len(m) |-> IF m[i].key = k THEN [key |-> k, value |-> v] ELSE m[i]]
  ELSE Append(m, [key |-> k, value |-> v])

(***************************************************************************)
(* Callbacks and contributor functions used as inputs (the functions of    *)
(* test/node-unit/plugin.spec.js, plus h, s1, s2, t1, and x, y that fail). *)
(* Calling a function gives a value or an error, synchronously or through  *)
(* a promise.                                                              *)
(***************************************************************************)
HookSetC == Obj([k \in {"beforeAll", "beforeEach"} |->
                  IF k = "beforeAll" THEN Fn("d") ELSE Fn("g")])
HookSetE == Obj([k \in {"afterEach"} |-> Fn("f")])
HookSetH == Obj([k \in {"beforeEach", "afterEach"} |->
                  IF k = "beforeEach" THEN Arr(<<Fn("b"), Fn("d")>>) ELSE Fn("g")])
HookSetA == Obj([k \in {"beforeEach"} |-> Fn("a")])
HookSetB == Obj([k \in {"afterAll"} |-> Fn("b")])

\* how a call of the function completes: "sync" returns the value, "async"
\* returns a promise that fulfills with it at some later time, "throw"
\* throws the error, "reject" returns a promise that rejects with it at
\* some later time
Call(fn) ==
  CASE fn.id = "c" -> [mode |-> "sync", value |-> HookSetC]
    [] fn.id = "x" -> [mode |-> "throw", value |-> Undefined, error |-> "x failed"]
    [] fn.id = "y" -> [mode |-> "reject", value |-> Undefined, error |-> "y failed"]
    [] fn.id = "e" -> [mode |-> "async", value |-> HookSetE]
    [] fn.id = "h" -> [mode |-> "async", value |-> HookSetH]
    [] fn.id = "f" -> [mode |-> "async", value |-> Undefined]
    [] OTHER -> [mode |-> "sync", value |-> Undefined]

(***************************************************************************)
(* Validators.  Each is TRUE when the validator throws the "unsupported"   *)
(* error for the value.                                                    *)
(***************************************************************************)
\* (mutation) the items of an array are not looked at
createFunctionArrayValidatorAnyArray(value) ==
  IF IsArray(value) THEN FALSE ELSE TypeOf(value) # "function"

createFunctionArrayValidator(value) ==
  IF IsArray(value)
  THEN \E i \in 1..Len(value.items) : TypeOf(value.items[i]) # "function"
  ELSE TypeOf(value) # "function"

\* (mutation) an array passes as an object
mochaHooksValidateNoArray(value) ==
  TypeOf(value) # "function" /\ TypeOf(value) # "object"

mochaHooksValidate(value) ==
  \/ IsArray(value)
  \/ (TypeOf(value) # "function" /\ TypeOf(value) # "object")

\* dispatch on the validator a definition (or pluginValidators) holds
ValidatorThrows(validate, value) ==
  CASE validate = "mochaHooks" -> mochaHooksValidate(value)
    [] validate = "functionArray" -> createFunctionArrayValidator(value)
    [] OTHER -> FALSE

(***************************************************************************)
(* Plugin definitions.  optionName, validate and finalize are optional     *)
(* properties: a definition without one has no such field.                 *)
(***************************************************************************)
MochaPlugins ==
  << [exportName |-> "mochaHooks", optionName |-> "rootHooks",
      validate |-> "mochaHooks", finalize |-> "mochaHooks"],
     [exportName |-> "mochaGlobalSetup", optionName |-> "globalSetup",
      validate |-> "functionArray"],
     [exportName |-> "mochaGlobalTeardown", optionName |-> "globalTeardown",
      validate |-> "functionArray"] >>

\* a definition a host may register: no optionName, no validator, the
\* root-hook aggregator as finalizer
BananaDef == [exportName |-> "mochaBananaPhone", finalize |-> "mochaHooks"]

\* lists of definitions handed to the constructor
CustomPlugins == << BananaDef, MochaPlugins[2], MochaPlugins[1] >>
ConflictingPlugins ==
  << MochaPlugins[1], MochaPlugins[2],
     [exportName |-> "mochaHooks", optionName |-> "moreHooks"] >>
DefinitionLists == {MochaPlugins, CustomPlugins, ConflictingPlugins}
RegisterArgs == {BananaDef, MochaPlugins[1]}

Has(def, field) == field \in DOMAIN def

(***************************************************************************)
(* Values handed to load: what a required module may export.               *)
(***************************************************************************)
NonObjects == {Undefined, Null, Num(42)}

ModuleObjects ==
  { Obj(NoProps),
    Obj("mochaBananaPhone" :> Fn("a")),
    Obj("mochaHooks" :> HookSetA),
    Obj("mochaHooks" :> Fn("c")),
    Obj("mochaHooks" :> Fn("e")),
    Obj("mochaHooks" :> Fn("h")),
    Obj("mochaHooks" :> Fn("x")),
    Obj("mochaHooks" :> Fn("y")),
    Obj("mochaHooks" :> Null),
    Obj("mochaHooks" :> Arr(<<HookSetA>>)),
    Obj("mochaHooks" :> Num(42)),
    Obj("mochaGlobalSetup" :> Fn("s1")),
    Obj("mochaGlobalSetup" :> Arr(<<Fn("s1"), Fn("s2")>>)
        @@ "mochaGlobalTeardown" :> Fn("t1")),
    Obj("mochaGlobalSetup" :> Arr(<<Fn("s1"), Num(42)>>)),
    Obj("mochaGlobalTeardown" :> Num(42)),
    Obj("mochaHooks" :> HookSetB @@ "mochaGlobalSetup" :> HookSetA),
    Obj("mochaHooks" :> Fn("e") @@ "mochaGlobalSetup" :> Fn("s2")
        @@ "mochaBananaPhone" :> HookSetB) }

Modules == NonObjects \cup ModuleObjects

(***************************************************************************)
(* State.                                                                  *)
(***************************************************************************)
VARIABLES
  loader,        \* "none" before construction, then the class constructed:
                 \* "registry" or "names"; "failed" when the constructor threw
  registered,    \* this.registered: Map exportName -> definition
  loaded,        \* this.loaded: Map exportName -> bucket
  pluginNames,   \* this.pluginNames (name-list class)
  pluginMap,     \* this.pluginMap: Map pluginName -> bucket
  pluginValidators, \* this.pluginValidators: pluginName -> validator
  calls,         \* the modules handed to load so far, in call order
  validated,     \* the validator invocations of the last load call, in
                 \* order: kind, argument, and the kind's bucket at that time
  ret,           \* how the last constructor/register/load call completed
  pc,            \* position of the finalize call: "idle" (never called),
                 \* "loop" (suspended in for await), "await" (suspended on
                 \* the aggregator), "done" (fulfilled), "rejected"
  k,             \* index of the entry of this.loaded the loop is at
  since,         \* number of load calls made when finalize was called
  finalizedPlugins, \* the object finalize builds and returns
  aggCalls,      \* kinds whose aggregator this finalize call has invoked
  previous,      \* what the finalize call before this one fulfilled with,
                 \* kept while no load is made since that call began;
                 \* outcome "idle" otherwise
  rootHooks,     \* the aggregator's argument
  resolved,      \* index of rootHooks -> value its promise fulfilled with
  pending,       \* indices of rootHooks whose promise is not settled
  order,         \* indices of rootHooks in the order their promises fulfilled
  failure,       \* the error Promise.all rejected with, "" while it has not
  invoked,       \* the calls of contributor functions the aggregator made
  result,        \* what a direct call of aggregateRootHooks fulfilled with
  arrays,        \* the array objects made for this.pluginMap, by identity:
                 \* the contents of each
  bucketArray,   \* index of pluginNames -> the array this.pluginMap holds
                 \* for the kind now
  handedOut      \* the raw lists inside the objects finalize has returned:
                 \* output key, array, and contents when it was returned

loaderVars == <<loader, registered, loaded, pluginNames, pluginMap,
                pluginValidators>>
aggVars == <<rootHooks, resolved, pending, order, failure, invoked, result>>
finVars == <<pc, k, since, finalizedPlugins, aggCalls, previous>>
heapVars == <<arrays, bucketArray, handedOut>>
vars == <<loaderVars, calls, validated, ret, finVars, aggVars, heapVars>>

NoPrevious == [outcome |-> "idle", value |-> [x \in {} |-> 0]]

Return(op, value) == [op |-> op, outcome |-> "return", value |-> value, error |-> ""]
Throw(op, error) == [op |-> op, outcome |-> "throw", value |-> FALSE, error |-> error]

(***************************************************************************)
(* Registry-based PluginLoader.                                            *)
(***************************************************************************)
\* get exportNames
exportNames(reg) == MapKeys(reg)

\* (mutation) no name-conflict test: the definition is overwritten
registerOverwriting(reg, plugin) ==
  [threw |-> FALSE, registered |-> MapSet(reg, plugin.exportName, plugin)]

\* register(plugin) on registry reg: throws on a name conflict
register(reg, plugin) ==
  IF MapHas(reg, plugin.exportName)
  THEN [threw |-> TRUE, registered |-> reg]
  ELSE [threw |-> FALSE, registered |-> MapSet(reg, plugin.exportName, plugin)]

\* pluginDefinitions.forEach(pluginDef => this.register(pluginDef))
RECURSIVE registerAll(_, _, _)
registerAll(pluginDefinitions, i, reg) ==
  IF i > Len(pluginDefinitions) THEN [threw |-> FALSE, registered |-> reg]
  ELSE LET r == register(reg, pluginDefinitions[i])
       IN IF r.threw THEN r
          ELSE registerAll(pluginDefinitions, i + 1, r.registered)

\* (mutation) the buckets of the built-in kinds, whatever the names are
emptyBucketsBuiltIn(names) ==
  << [key |-> "mochaHooks", value |-> <<>>],
     [key |-> "mochaGlobalSetup", value |-> <<>>],
     [key |-> "mochaGlobalTeardown", value |-> <<>>] >>

\* new Map(this.exportNames.map(name => [name, []]))
emptyBuckets(names) == [i \in 1..Len(names) |-> [key |-> names[i], value |-> <<>>]]

Init ==
  /\ loader = "none"
  /\ registered = EmptyMap
  /\ loaded = EmptyMap
  /\ pluginNames = <<>>
  /\ pluginMap = EmptyMap
  /\ pluginValidators = NoProps
  /\ calls = <<>>
  /\ validated = <<>>
  /\ ret = Return("none", FALSE)
  /\ pc = "idle"
  /\ k = 1
  /\ since = 0
  /\ finalizedPlugins = NoProps
  /\ aggCalls = <<>>
  /\ previous = NoPrevious
  /\ rootHooks = <<>>
  /\ resolved = <<>>
  /\ pending = {}
  /\ order = <<>>
  /\ failure = ""
  /\ invoked = <<>>
  /\ result = Undefined
  /\ arrays = <<>>
  /\ bucketArray = <<>>
  /\ handedOut = {}

\* new PluginLoader(pluginDefinitions)
constructor(pluginDefinitions) ==
  /\ loader = "none"
  /\ LET r == registerAll(pluginDefinitions, 1, EmptyMap)
     IN /\ registered' = r.registered
        /\ IF r.threw
           THEN /\ loader' = "failed"
                /\ loaded' = loaded
                /\ ret' = Throw("constructor", "plugin name conflict")
           ELSE /\ loader' = "registry"
                /\ loaded' = emptyBuckets(exportNames(r.registered))
                /\ ret' = Return("constructor", FALSE)
  /\ UNCHANGED heapVars
  /\ UNCHANGED <<pluginNames, pluginMap, pluginValidators, calls, validated,
                 finVars, aggVars>>

\* loader.register(plugin) called on a constructed loader, by a host that
\* adds kinds before it finalizes
RegisterCall(plugin) ==
  /\ loader = "registry"
  /\ pc = "idle"
  /\ LET r == register(registered, plugin)
     IN /\ registered' = r.registered
        /\ ret' = IF r.threw THEN Throw("register", "plugin name conflict")
                  ELSE Return("register", FALSE)
  /\ UNCHANGED heapVars
  /\ UNCHANGED <<loader, loaded, pluginNames, pluginMap, pluginValidators, calls,
                 validated, finVars, aggVars>>

\* (mutation) the validator is handed the contribution as an array
validationOfNormalized(hasValidator, pluginName, impl, bucket) ==
  IF hasValidator
  THEN << [kind |-> pluginName, value |-> Arr(castArray(impl)), bucket |-> bucket] >>
  ELSE <<>>

\* plugin.validate(impl) is invoked, when the kind has a validator: what it
\* is invoked with and the bucket of the kind at that time
validation(hasValidator, pluginName, impl, bucket) ==
  IF hasValidator
  THEN << [kind |-> pluginName, value |-> impl, bucket |-> bucket] >>
  ELSE <<>>

\* the invocations made so far, followed by those of the rest of the reduce
Logged(checked, r) == [r EXCEPT !.validated = checked \o @]

\* (mutation) `return false` where the reduce returns isFound
RECURSIVE loadReduceForgetful(_, _, _, _, _)
loadReduceForgetful(reg, ld, requiredModule, i, isFound) ==
  IF i > Len(reg) THEN [loaded |-> ld, outcome |-> "return", value |-> isFound, error |-> "",
        validated |-> <<>>]
  ELSE
    LET pluginName == exportNames(reg)[i]
        impl == Get(requiredModule, pluginName)
        plugin == MapGet(reg, pluginName)
        checked == validation(Has(plugin, "validate"), pluginName, impl,
                              MapGet(ld, pluginName))
    IN IF Truthy(impl)
       THEN IF Has(plugin, "validate") /\ ValidatorThrows(plugin.validate, impl)
            THEN [loaded |-> ld, outcome |-> "throw", value |-> FALSE,
                  error |-> "unsupported", validated |-> checked]
            ELSE IF ~MapHas(ld, pluginName)
            THEN [loaded |-> ld, outcome |-> "throw", value |-> FALSE,
                  error |-> "TypeError", validated |-> checked]
            ELSE Logged(checked, loadReduceForgetful(reg,
                            MapSet(ld, pluginName,
                                   MapGet(ld, pluginName) \o castArray(impl)),
                            requiredModule, i + 1, TRUE))
       ELSE loadReduceForgetful(reg, ld, requiredModule, i + 1, FALSE)

\* (mutation) the bucket is set to the new contribution, without the
\* spread of the bucket's earlier contents
RECURSIVE loadReduceReplacing(_, _, _, _, _)
loadReduceReplacing(reg, ld, requiredModule, i, isFound) ==
  IF i > Len(reg) THEN [loaded |-> ld, outcome |-> "return", value |-> isFound, error |-> "",
        validated |-> <<>>]
  ELSE
    LET pluginName == exportNames(reg)[i]
        impl == Get(requiredModule, pluginName)
        plugin == MapGet(reg, pluginName)
        checked == validation(Has(plugin, "validate"), pluginName, impl,
                              MapGet(ld, pluginName))
    IN IF Truthy(impl)
       THEN IF Has(plugin, "validate") /\ ValidatorThrows(plugin.validate, impl)
            THEN [loaded |-> ld, outcome |-> "throw", value |-> FALSE,
                  error |-> "unsupported", validated |-> checked]
            ELSE IF ~MapHas(ld, pluginName)
            THEN [loaded |-> ld, outcome |-> "throw", value |-> FALSE,
                  error |-> "TypeError", validated |-> checked]
            ELSE Logged(checked, loadReduceReplacing(reg,
                            MapSet(ld, pluginName, castArray(impl)),
                            requiredModule, i + 1, TRUE))
       ELSE loadReduceReplacing(reg, ld, requiredModule, i + 1, isFound)

\* the reduce of load over this.exportNames, from index i on
RECURSIVE loadReduce(_, _, _, _, _)
loadReduce(reg, ld, requiredModule, i, isFound) ==
  IF i > Len(reg) THEN [loaded |-> ld, outcome |-> "return", value |-> isFound, error |-> "",
        validated |-> <<>>]
  ELSE
    LET pluginName == exportNames(reg)[i]
        impl == Get(requiredModule, pluginName)
        plugin == MapGet(reg, pluginName)
        checked == validation(Has(plugin, "validate"), pluginName, impl,
                              MapGet(ld, pluginName))
    IN IF Truthy(impl)
       THEN IF Has(plugin, "validate") /\ ValidatorThrows(plugin.validate, impl)
            THEN [loaded |-> ld, outcome |-> "throw", value |-> FALSE,
                  error |-> "unsupported", validated |-> checked]
            ELSE IF ~MapHas(ld, pluginName)
            THEN \* [...this.loaded.get(pluginName)] spreads undefined
                 [loaded |-> ld, outcome |-> "throw", value |-> FALSE,
                  error |-> "TypeError", validated |-> checked]
            ELSE Logged(checked, loadReduce(reg,
                            MapSet(ld, pluginName,
                                   MapGet(ld, pluginName) \o castArray(impl)),
                            requiredModule, i + 1, TRUE))
       ELSE loadReduce(reg, ld, requiredModule, i + 1, isFound)

\* (mutation) `return true` for a module that is not an object
loadTrueByDefault(reg, ld, requiredModule) ==
  IF Truthy(requiredModule) /\ TypeOf(requiredModule) = "object"
  THEN loadReduce(reg, ld, requiredModule, 1, FALSE)
  ELSE [loaded |-> ld, outcome |-> "return", value |-> TRUE, error |-> "",
        validated |-> <<>>]

\* load(requiredModule)
load(reg, ld, requiredModule) ==
  IF Truthy(requiredModule) /\ TypeOf(requiredModule) = "object"
  THEN loadReduce(reg, ld, requiredModule, 1, FALSE)
  ELSE [loaded |-> ld, outcome |-> "return", value |-> FALSE, error |-> "",
        validated |-> <<>>]

\* loader.load(requiredModule), called by the driver that requires the
\* modules one at a time, while no finalize call is suspended
LoadCall(requiredModule) ==
  /\ loader = "registry"
  /\ Len(calls) < MaxLoads
  /\ pc \notin {"loop", "await"}
  /\ LET r == load(registered, loaded, requiredModule)
     IN /\ loaded' = r.loaded
        /\ ret' = [op |-> "load", outcome |-> r.outcome, value |-> r.value,
                   error |-> r.error]
        /\ validated' = r.validated
  /\ calls' = Append(calls, requiredModule)
  /\ previous' = NoPrevious
  /\ UNCHANGED heapVars
  /\ UNCHANGED <<loader, registered, pluginNames, pluginMap, pluginValidators,
                 pc, k, since, finalizedPlugins, aggCalls, aggVars>>

(***************************************************************************)
(* Root-hook aggregation (the finalizer of the mochaHooks definition and   *)
(* aggregateRootHooks).                                                    *)
(***************************************************************************)
HookKeys == {"beforeAll", "beforeEach", "afterAll", "afterEach"}
EmptyHooks == [key \in HookKeys |-> <<>>]

\* (mutation) a failed call counts as a contribution of nothing
resolveHookSettled(hook) ==
  IF TypeOf(hook) = "function"
  THEN [mode |-> IF Call(hook).mode \in {"sync", "throw"} THEN "sync" ELSE "async",
        value |-> Call(hook).value]
  ELSE [mode |-> "sync", value |-> hook]

\* hook => typeof hook === 'function' ? hook() : hook
\* what the promise of one contribution fulfills with, and whether it does
\* so only after the call has returned a promise of its own
resolveHook(hook) ==
  IF TypeOf(hook) = "function" THEN Call(hook)
  ELSE [mode |-> "sync", value |-> hook]

\* (mutation) the values in the order the promises settled
rootHookObjectsBySettlement(res, ord) == [j \in 1..Len(ord) |-> res[ord[j]]]

\* the array Promise.all fulfills with: the values by index of rootHooks
rootHookObjects(res, ord) == [i \in 1..Len(ord) |-> res[i]]

\* {beforeAll: [], beforeEach: [], afterAll: [], afterEach: [], ...hook}
withDefaults(hook) ==
  [key \in HookKeys |->
     IF hook.t = "object" /\ key \in DOMAIN hook.props THEN hook.props[key]
     ELSE Arr(<<>>)]

\* (mutation) each object's callbacks go in front of the accumulated ones
RECURSIVE reduceRootHooksPrepending(_, _, _)
reduceRootHooksPrepending(objects, i, acc) ==
  IF i > Len(objects) THEN acc
  ELSE LET hook == withDefaults(objects[i])
       IN reduceRootHooksPrepending(objects, i + 1,
            [key \in HookKeys |-> castArray(hook[key]) \o acc[key]])

\* rootHookObjects.reduce(..., {beforeAll: [], ...}) from index i on
RECURSIVE reduceRootHooks(_, _, _)
reduceRootHooks(objects, i, acc) ==
  IF i > Len(objects) THEN acc
  ELSE LET hook == withDefaults(objects[i])
       IN reduceRootHooks(objects, i + 1,
                          [key \in HookKeys |-> acc[key] \o castArray(hook[key])])

\* (mutation) the functions are called one after the other, each awaited
\* before the next is called: the calls made when the first await begins
invocationsInTurn(impls) ==
  LET fns == SelectSeq([i \in 1..Len(impls) |-> i],
                       LAMBDA i : TypeOf(impls[i]) = "function")
      waits == {j \in 1..Len(fns) : Call(impls[fns[j]]).mode \in {"async", "reject"}}
      last == IF waits = {} THEN Len(fns)
              ELSE CHOOSE j \in waits : \A j2 \in waits : j <= j2
  IN [j \in 1..last |-> [index |-> fns[j], hook |-> impls[fns[j]], args |-> <<>>]]

\* rootHooks.map(async hook => typeof hook === 'function' ? hook() : hook):
\* the calls the map makes, in order, each without arguments
invocations(impls) ==
  LET fns == SelectSeq([i \in 1..Len(impls) |-> i],
                       LAMBDA i : TypeOf(impls[i]) = "function")
  IN [j \in 1..Len(fns) |-> [index |-> fns[j], hook |-> impls[fns[j]], args |-> <<>>]]

\* the rejection Promise.all has seen once the map has run: that of the
\* first contribution whose call threw, none ("") when no call threw
firstThrown(impls, thrown) ==
  IF thrown = {} THEN ""
  ELSE resolveHook(impls[CHOOSE i \in thrown : \A j \in thrown : i <= j]).error

\* the aggregator is invoked: every contribution is mapped to a promise,
\* function contributions are called, and the aggregator suspends on
\* Promise.all
InvokeAggregator(impls) ==
  LET idx == [i \in 1..Len(impls) |-> i]
      sync == {i \in 1..Len(impls) : resolveHook(impls[i]).mode = "sync"}
      thrown == {i \in 1..Len(impls) : resolveHook(impls[i]).mode = "throw"}
  IN /\ rootHooks' = impls
     /\ resolved' = [i \in sync |-> resolveHook(impls[i]).value]
     /\ pending' = (1..Len(impls)) \ (sync \cup thrown)
     /\ order' = SelectSeq(idx, LAMBDA i : i \in sync)
     /\ failure' = firstThrown(impls, thrown)
     /\ invoked' = invocations(impls)
     /\ UNCHANGED result

\* the promise of one pending contribution fulfills
Resolve(i) ==
  /\ pc = "await"
  /\ i \in pending
  /\ resolveHook(rootHooks[i]).mode = "async"
  /\ pending' = pending \ {i}
  /\ resolved' = [j \in DOMAIN resolved \cup {i} |->
                    IF j = i THEN resolveHook(rootHooks[i]).value ELSE resolved[j]]
  /\ order' = Append(order, i)
  /\ UNCHANGED heapVars
  /\ UNCHANGED <<loaderVars, calls, validated, ret, finVars, rootHooks, invoked, failure,
                 result>>

\* the promise of one pending contribution rejects; Promise.all rejects with
\* the first rejection it sees
Reject(i) ==
  /\ pc = "await"
  /\ i \in pending
  /\ resolveHook(rootHooks[i]).mode = "reject"
  /\ pending' = pending \ {i}
  /\ failure' = IF failure = "" THEN resolveHook(rootHooks[i]).error ELSE failure
  /\ UNCHANGED heapVars
  /\ UNCHANGED <<loaderVars, calls, validated, ret, finVars, rootHooks, invoked, resolved,
                 order, result>>

\* the finalizer of the mochaHooks definition, once Promise.all has
\* fulfilled with objects: nothing (undefined) for an empty list
mochaHooksFinalize(impls, objects) ==
  IF Len(impls) > 0 THEN reduceRootHooks(objects, 1, EmptyHooks) ELSE Undefined

\* (mutation) nothing is returned for an empty list
aggregateRootHooksGuarded(objects) ==
  IF Len(objects) > 0 THEN reduceRootHooks(objects, 1, EmptyHooks) ELSE Undefined

\* aggregateRootHooks, once Promise.all has fulfilled with objects
aggregateRootHooks(objects) == reduceRootHooks(objects, 1, EmptyHooks)

\* finalizedPlugins[key] = value
Assign(obj, key, value) ==
  [x \in DOMAIN obj \cup {key} |-> IF x = key THEN value ELSE obj[x]]

(***************************************************************************)
(* finalize of the registry-based loader.                                  *)
(***************************************************************************)
\* what the caller holds of the finalize call that has settled, to compare
\* the next call with
Settled ==
  IF pc = "done" /\ since = Len(calls)
  THEN [outcome |-> pc, value |-> finalizedPlugins]
  ELSE NoPrevious

\* (mutation) the entries from the last inserted to the first
entriesReversed(m) == [i \in 1..Len(m) |-> m[Len(m) + 1 - i]]

\* this.loaded.entries(): the entries of the Map in insertion order
entries(m) == m

\* loader.finalize() is called: runs up to the first await of the loop
FinalizeCall ==
  /\ loader = "registry"
  /\ pc \in {"idle", "done", "rejected"}
  /\ pc' = "loop"
  /\ k' = 1
  /\ since' = Len(calls)
  /\ finalizedPlugins' = NoProps
  /\ aggCalls' = <<>>
  /\ previous' = Settled
  /\ UNCHANGED heapVars
  /\ UNCHANGED <<loaderVars, calls, validated, ret, aggVars>>

\* (mutation) the bucket's length is not tested
shouldFinalizeAnyLength(impls, plugin) == Has(plugin, "finalize")

\* (mutation) the definition's finalize is not tested
shouldFinalizeAnyKind(impls, plugin) == Len(impls) > 0

\* if (impls.length) { ... if (typeof plugin.finalize === 'function')
shouldFinalize(impls, plugin) == Len(impls) > 0 /\ Has(plugin, "finalize")

\* (mutation) the export name is the key, whatever optionName says
optionKeyExportName(plugin, exportName) == exportName

\* plugin.optionName || exportName
optionKey(plugin, exportName) ==
  IF Has(plugin, "optionName") THEN plugin.optionName ELSE exportName

\* one iteration of `for await (const [exportName, impls] of
\* this.loaded.entries())`, up to its await; or the return after the loop
FinalizeLoop ==
  /\ loader = "registry"
  /\ pc = "loop"
  /\ IF k > Len(entries(loaded))
     THEN /\ pc' = "done"
          /\ UNCHANGED <<k, aggCalls, aggVars>>
     ELSE LET exportName == entries(loaded)[k].key
              impls == entries(loaded)[k].value
              plugin == MapGet(registered, exportName)
          IN IF shouldFinalize(impls, plugin)
             THEN /\ pc' = "await"
                  /\ aggCalls' = Append(aggCalls, exportName)
                  /\ InvokeAggregator(impls)
                  /\ UNCHANGED k
             ELSE /\ k' = k + 1
                  /\ UNCHANGED <<pc, aggCalls, aggVars>>
  /\ UNCHANGED heapVars
  /\ UNCHANGED <<loaderVars, calls, validated, ret, since, finalizedPlugins,
                 previous>>

\* (mutation) the bucket is emptied once its contributions are aggregated
FinalizeAssignDraining ==
  /\ loader = "registry"
  /\ pc = "await"
  /\ pending = {}
  /\ failure = ""
  /\ LET exportName == entries(loaded)[k].key
         plugin == MapGet(registered, exportName)
         value == mochaHooksFinalize(rootHooks, rootHookObjects(resolved, order))
     IN /\ finalizedPlugins' =
             Assign(finalizedPlugins, optionKey(plugin, exportName), value)
        /\ loaded' = MapSet(loaded, exportName, <<>>)
  /\ k' = k + 1
  /\ pc' = "loop"
  /\ UNCHANGED heapVars
  /\ UNCHANGED <<loader, registered, pluginNames, pluginMap, pluginValidators,
                 calls, validated, ret, since, aggCalls, previous, aggVars>>

\* Promise.all has fulfilled: the aggregator reduces and returns, and
\* finalize assigns the result under plugin.optionName || exportName
FinalizeAssign ==
  /\ loader = "registry"
  /\ pc = "await"
  /\ pending = {}
  /\ failure = ""
  /\ LET exportName == entries(loaded)[k].key
         plugin == MapGet(registered, exportName)
         value == mochaHooksFinalize(rootHooks, rootHookObjects(resolved, order))
     IN finalizedPlugins' =
          Assign(finalizedPlugins, optionKey(plugin, exportName), value)
  /\ k' = k + 1
  /\ pc' = "loop"
  /\ UNCHANGED heapVars
  /\ UNCHANGED <<loaderVars, calls, validated, ret, since, aggCalls, previous,
                 aggVars>>

\* (mutation) finalize gives up on contributors that are slow to settle
FinalizeRejectOnTimeout ==
  /\ loader \in {"registry", "names"}
  /\ pc = "await"
  /\ (failure # "" \/ pending # {})
  /\ pc' = "rejected"
  /\ UNCHANGED heapVars
  /\ UNCHANGED <<loaderVars, calls, validated, ret, k, since, finalizedPlugins,
                 aggCalls, previous, aggVars>>

\* Promise.all has rejected: the await in the aggregator throws, the
\* aggregator rejects, and the await in finalize throws in turn; neither
\* has a handler, so finalize rejects with the same error (both classes)
FinalizeReject ==
  /\ loader \in {"registry", "names"}
  /\ pc = "await"
  /\ failure # ""
  /\ pc' = "rejected"
  /\ UNCHANGED heapVars
  /\ UNCHANGED <<loaderVars, calls, validated, ret, k, since, finalizedPlugins,
                 aggCalls, previous, aggVars>>

(***************************************************************************)
(* Name-list PluginLoader (pluginNames + pluginValidators).                *)
(***************************************************************************)
PLUGIN_ROOT_HOOKS == "mochaHooks"
PLUGIN_GLOBAL_SETUP == "mochaGlobalSetup"
PLUGIN_GLOBAL_TEARDOWN == "mochaGlobalTeardown"
PLUGIN_NAMES == <<PLUGIN_ROOT_HOOKS, PLUGIN_GLOBAL_SETUP, PLUGIN_GLOBAL_TEARDOWN>>

\* (mutation) mochaGlobalSetup is checked as mochaHooks is
PluginValidatorsSwapped ==
  [name \in {PLUGIN_ROOT_HOOKS, PLUGIN_GLOBAL_SETUP, PLUGIN_GLOBAL_TEARDOWN} |->
     IF name = PLUGIN_GLOBAL_TEARDOWN THEN "functionArray" ELSE "mochaHooks"]

PluginValidators ==
  [name \in {PLUGIN_ROOT_HOOKS, PLUGIN_GLOBAL_SETUP, PLUGIN_GLOBAL_TEARDOWN} |->
     IF name = PLUGIN_ROOT_HOOKS THEN "mochaHooks" ELSE "functionArray"]

\* constructor arguments: the defaults, an explicit list of names, and an
\* explicit list of names with an explicit object of validators
ConstructorArgs ==
  { [pluginNames |-> PLUGIN_NAMES, pluginValidators |-> PluginValidators],
    [pluginNames |-> <<"mochaBananaPhone", PLUGIN_ROOT_HOOKS>>,
     pluginValidators |-> PluginValidators],
    [pluginNames |-> <<"mochaBananaPhone">>,
     pluginValidators |-> [name \in {"mochaBananaPhone"} |-> "spy"]] }

\* new PluginLoader({pluginNames, pluginValidators})
constructorNames(args) ==
  /\ loader = "none"
  /\ loader' = "names"
  /\ pluginNames' = args.pluginNames
  /\ pluginMap' = emptyBuckets(args.pluginNames)
  /\ pluginValidators' = args.pluginValidators
  /\ ret' = Return("constructor", FALSE)
  /\ arrays' = [i \in 1..Len(args.pluginNames) |-> <<>>]
  /\ bucketArray' = [i \in 1..Len(args.pluginNames) |-> i]
  /\ handedOut' = handedOut
  /\ UNCHANGED <<registered, loaded, calls, validated, finVars, aggVars>>

\* (mutation) the new contribution goes in front of the bucket
RECURSIVE loadNamesReducePrepending(_, _, _, _, _, _)
loadNamesReducePrepending(names, validators, map, requiredModule, i, isFound) ==
  IF i > Len(names) THEN [loaded |-> map, outcome |-> "return", value |-> isFound, error |-> "",
        validated |-> <<>>]
  ELSE
    LET pluginName == names[i]
        plugin == Get(requiredModule, pluginName)
        checked == validation(pluginName \in DOMAIN validators, pluginName,
                              plugin, MapGet(map, pluginName))
    IN IF Truthy(plugin)
       THEN IF pluginName \in DOMAIN validators
               /\ ValidatorThrows(validators[pluginName], plugin)
            THEN [loaded |-> map, outcome |-> "throw", value |-> FALSE,
                  error |-> "unsupported", validated |-> checked]
            ELSE IF ~MapHas(map, pluginName)
            THEN [loaded |-> map, outcome |-> "throw", value |-> FALSE,
                  error |-> "TypeError", validated |-> checked]
            ELSE Logged(checked, loadNamesReducePrepending(names, validators,
                                 MapSet(map, pluginName,
                                        castArray(plugin) \o MapGet(map, pluginName)),
                                 requiredModule, i + 1, TRUE))
       ELSE loadNamesReducePrepending(names, validators, map, requiredModule,
                                      i + 1, isFound)

\* the reduce of load over this.pluginNames, from index i on
RECURSIVE loadNamesReduce(_, _, _, _, _, _)
loadNamesReduce(names, validators, map, requiredModule, i, isFound) ==
  IF i > Len(names) THEN [loaded |-> map, outcome |-> "return", value |-> isFound, error |-> "",
        validated |-> <<>>]
  ELSE
    LET pluginName == names[i]
        plugin == Get(requiredModule, pluginName)
        checked == validation(pluginName \in DOMAIN validators, pluginName,
                              plugin, MapGet(map, pluginName))
    IN IF Truthy(plugin)
       THEN IF pluginName \in DOMAIN validators
               /\ ValidatorThrows(validators[pluginName], plugin)
            THEN [loaded |-> map, outcome |-> "throw", value |-> FALSE,
                  error |-> "unsupported", validated |-> checked]
            ELSE IF ~MapHas(map, pluginName)
            THEN [loaded |-> map, outcome |-> "throw", value |-> FALSE,
                  error |-> "TypeError", validated |-> checked]
            ELSE Logged(checked, loadNamesReduce(names, validators,
                                 MapSet(map, pluginName,
                                        MapGet(map, pluginName) \o castArray(plugin)),
                                 requiredModule, i + 1, TRUE))
       ELSE loadNamesReduce(names, validators, map, requiredModule, i + 1, isFound)

\* (mutation) the reduce starts from true
loadNamesFoundAtStart(names, validators, map, requiredModule) ==
  IF Truthy(requiredModule) /\ TypeOf(requiredModule) = "object"
  THEN loadNamesReduce(names, validators, map, requiredModule, 1, TRUE)
  ELSE [loaded |-> map, outcome |-> "return", value |-> FALSE, error |-> "",
        validated |-> <<>>]

\* load(requiredModule)
loadNames(names, validators, map, requiredModule) ==
  IF Truthy(requiredModule) /\ TypeOf(requiredModule) = "object"
  THEN loadNamesReduce(names, validators, map, requiredModule, 1, FALSE)
  ELSE [loaded |-> map, outcome |-> "return", value |-> FALSE, error |-> "",
        validated |-> <<>>]

\* (mutation) the new elements are pushed onto the array the Map holds
spreadPushing(heap, array, items) ==
  [arrays |-> [heap EXCEPT ![array] = @ \o items], array |-> array]

\* [...this.pluginMap.get(pluginName), ...castArray(plugin)]: a new array
\* with the elements of the old one and then the new elements
spread(heap, array, items) ==
  [arrays |-> Append(heap, heap[array] \o items), array |-> Len(heap) + 1]

\* the array objects after load(requiredModule): each this.pluginMap.set of
\* the reduce, up to the kind whose validator throws
RECURSIVE setBuckets(_, _, _, _, _, _)
setBuckets(names, validators, requiredModule, i, heap, held) ==
  IF i > Len(names) \/ ~(Truthy(requiredModule) /\ TypeOf(requiredModule) = "object")
  THEN [arrays |-> heap, bucketArray |-> held]
  ELSE
    LET pluginName == names[i]
        plugin == Get(requiredModule, pluginName)
    IN IF Truthy(plugin)
       THEN IF pluginName \in DOMAIN validators
               /\ ValidatorThrows(validators[pluginName], plugin)
            THEN [arrays |-> heap, bucketArray |-> held]
            ELSE LET s == spread(heap, held[i], castArray(plugin))
                 IN setBuckets(names, validators, requiredModule, i + 1,
                               s.arrays, [held EXCEPT ![i] = s.array])
       ELSE setBuckets(names, validators, requiredModule, i + 1, heap, held)

LoadNamesCall(requiredModule) ==
  /\ loader = "names"
  /\ Len(calls) < MaxLoads
  /\ pc \notin {"loop", "await"}
  /\ LET r == loadNames(pluginNames, pluginValidators, pluginMap, requiredModule)
         h == setBuckets(pluginNames, pluginValidators, requiredModule, 1,
                         arrays, bucketArray)
     IN /\ pluginMap' = r.loaded
        /\ arrays' = h.arrays
        /\ bucketArray' = h.bucketArray
        /\ handedOut' = handedOut
        /\ ret' = [op |-> "load", outcome |-> r.outcome, value |-> r.value,
                   error |-> r.error]
        /\ validated' = r.validated
  /\ calls' = Append(calls, requiredModule)
  /\ previous' = NoPrevious
  /\ UNCHANGED <<loader, registered, loaded, pluginNames, pluginValidators,
                 pc, k, since, finalizedPlugins, aggCalls, aggVars>>

\* (mutation) the teardown bucket is surfaced under globalSetup as well
finalizeGlobalsCopyPasted(map, out) ==
  IF ~MapHas(map, "mochaGlobalSetup") \/ ~MapHas(map, "mochaGlobalTeardown")
  THEN [threw |-> TRUE, out |-> out]
  ELSE
    LET mochaGlobalTeardown == MapGet(map, "mochaGlobalTeardown")
        out1 == IF Len(mochaGlobalTeardown) > 0
                THEN Assign(out, "globalSetup", mochaGlobalTeardown) ELSE out
    IN [threw |-> FALSE,
        out |-> IF Len(mochaGlobalTeardown) > 0
                THEN Assign(out1, "globalTeardown", mochaGlobalTeardown)
                ELSE out1]

\* the part of finalize after the root hooks: the raw global setup and
\* teardown buckets; reading .length of a missing bucket throws
finalizeGlobals(map, out) ==
  IF ~MapHas(map, PLUGIN_GLOBAL_SETUP) THEN [threw |-> TRUE, out |-> out]
  ELSE
    LET mochaGlobalSetup == MapGet(map, PLUGIN_GLOBAL_SETUP)
        out1 == IF Len(mochaGlobalSetup) > 0
                THEN Assign(out, "globalSetup", mochaGlobalSetup) ELSE out
    IN IF ~MapHas(map, PLUGIN_GLOBAL_TEARDOWN) THEN [threw |-> TRUE, out |-> out1]
       ELSE LET mochaGlobalTeardown == MapGet(map, PLUGIN_GLOBAL_TEARDOWN)
            IN [threw |-> FALSE,
                out |-> IF Len(mochaGlobalTeardown) > 0
                        THEN Assign(out1, "globalTeardown", mochaGlobalTeardown)
                        ELSE out1]

\* finalizedPlugins.globalSetup = mochaGlobalSetup (and globalTeardown): the
\* returned object holds the arrays of the Map themselves
rawLists(names, held, out) ==
  {[key |-> key,
    array |-> held[CHOOSE i \in 1..Len(names) :
                     names[i] = (IF key = "globalSetup" THEN PLUGIN_GLOBAL_SETUP
                                 ELSE PLUGIN_GLOBAL_TEARDOWN)],
    contents |-> out[key]] : key \in DOMAIN out \cap {"globalSetup", "globalTeardown"}}

\* loader.finalize() is called: runs up to `await aggregateRootHooks`, or to
\* the end when there are no root hooks
FinalizeNamesCall ==
  /\ loader = "names"
  /\ pc \in {"idle", "done", "rejected"}
  /\ since' = Len(calls)
  /\ k' = 1
  /\ previous' = Settled
  /\ IF ~MapHas(pluginMap, PLUGIN_ROOT_HOOKS)
     THEN /\ pc' = "rejected"
          /\ finalizedPlugins' = NoProps
          /\ aggCalls' = <<>>
          /\ UNCHANGED aggVars
     ELSE LET mochaHooks == MapGet(pluginMap, PLUGIN_ROOT_HOOKS)
          IN IF Len(mochaHooks) > 0
             THEN /\ pc' = "await"
                  /\ finalizedPlugins' = NoProps
                  /\ aggCalls' = <<PLUGIN_ROOT_HOOKS>>
                  /\ InvokeAggregator(mochaHooks)
             ELSE LET r == finalizeGlobals(pluginMap, NoProps)
                  IN /\ pc' = IF r.threw THEN "rejected" ELSE "done"
                     /\ finalizedPlugins' = r.out
                     /\ aggCalls' = <<>>
                     /\ UNCHANGED aggVars
  /\ handedOut' = IF pc' = "done"
                  THEN handedOut \cup rawLists(pluginNames, bucketArray, finalizedPlugins')
                  ELSE handedOut
  /\ UNCHANGED <<loaderVars, calls, validated, ret, arrays, bucketArray>>

\* (mutation) the buckets are emptied once they are handed out
FinalizeNamesResumeDraining ==
  /\ loader = "names"
  /\ pc = "await"
  /\ pending = {}
  /\ failure = ""
  /\ LET value == aggregateRootHooks(rootHookObjects(resolved, order))
         r == finalizeGlobals(pluginMap, Assign(finalizedPlugins, "rootHooks", value))
     IN /\ pc' = IF r.threw THEN "rejected" ELSE "done"
        /\ finalizedPlugins' = r.out
  /\ pluginMap' = emptyBuckets(pluginNames)
  /\ UNCHANGED heapVars
  /\ UNCHANGED <<loader, registered, loaded, pluginNames, pluginValidators,
                 calls, validated, ret, k, since, aggCalls, previous, aggVars>>

\* aggregateRootHooks has fulfilled: rootHooks is assigned and finalize
\* runs to its end
FinalizeNamesResume ==
  /\ loader = "names"
  /\ pc = "await"
  /\ pending = {}
  /\ failure = ""
  /\ LET value == aggregateRootHooks(rootHookObjects(resolved, order))
         r == finalizeGlobals(pluginMap, Assign(finalizedPlugins, "rootHooks", value))
     IN /\ pc' = IF r.threw THEN "rejected" ELSE "done"
        /\ finalizedPlugins' = r.out
        /\ handedOut' = IF r.threw THEN handedOut
                        ELSE handedOut \cup rawLists(pluginNames, bucketArray, r.out)
  /\ UNCHANGED <<arrays, bucketArray>>
  /\ UNCHANGED <<loaderVars, calls, validated, ret, k, since, aggCalls, previous,
                 aggVars>>

(***************************************************************************)
(* aggregateRootHooks called directly (it is exported).                    *)
(***************************************************************************)
Contributions == {HookSetA, HookSetB, Fn("c"), Fn("e"), Fn("h"), Fn("x"), Fn("y")}
\* what the function is called with: nothing (undefined), or an array
AggregateArgs ==
  {Undefined} \cup {Arr(l) : l \in UNION {[1..n -> Contributions] : n \in 0..MaxHooks}}

\* the default parameter `rootHooks = []`
defaultRootHooks(arg) == IF arg.t = "undefined" THEN <<>> ELSE arg.items

\* aggregateRootHooks(arg) is called: runs up to `await Promise.all(...)`
AggregateCall(arg) ==
  /\ loader = "none"
  /\ pc = "idle"
  /\ pc' = "await"
  /\ LET list == defaultRootHooks(arg)
         idx == [i \in 1..Len(list) |-> i]
         sync == {i \in 1..Len(list) : resolveHook(list[i]).mode = "sync"}
         thrown == {i \in 1..Len(list) : resolveHook(list[i]).mode = "throw"}
     IN /\ rootHooks' = list
        /\ resolved' = [i \in sync |-> resolveHook(list[i]).value]
        /\ pending' = (1..Len(list)) \ (sync \cup thrown)
        /\ order' = SelectSeq(idx, LAMBDA i : i \in sync)
        /\ failure' = firstThrown(list, thrown)
        /\ invoked' = invocations(list)
        /\ result' = Undefined
  /\ UNCHANGED heapVars
  /\ UNCHANGED <<loaderVars, calls, validated, ret, k, since, finalizedPlugins,
                 aggCalls, previous>>

\* Promise.all has fulfilled: the reduce runs and the call fulfills
AggregateReturn ==
  /\ loader = "none"
  /\ pc = "await"
  /\ pending = {}
  /\ failure = ""
  /\ result' = aggregateRootHooks(rootHookObjects(resolved, order))
  /\ pc' = "fulfilled"
  /\ UNCHANGED heapVars
  /\ UNCHANGED <<loaderVars, calls, validated, ret, k, since, finalizedPlugins,
                 aggCalls, previous, rootHooks, invoked, resolved, pending, order, failure>>

\* Promise.all has rejected: the await throws and the call rejects
AggregateReject ==
  /\ loader = "none"
  /\ pc = "await"
  /\ failure # ""
  /\ pc' = "rejected"
  /\ UNCHANGED heapVars
  /\ UNCHANGED <<loaderVars, calls, validated, ret, k, since, finalizedPlugins,
                 aggCalls, previous, aggVars>>

NextAggregate ==
  \/ (pc = "idle" /\ \E arg \in AggregateArgs : AggregateCall(arg))
  \/ \E i \in pending : Resolve(i)
  \/ \E i \in pending : Reject(i)
  \/ AggregateReturn
  \/ AggregateReject

SpecAggregate == Init /\ [][NextAggregate]_vars

Next ==
  \/ \E defs \in DefinitionLists : constructor(defs)
  \/ \E plugin \in RegisterArgs : RegisterCall(plugin)
  \/ \E m \in Modules : LoadCall(m)
  \/ FinalizeCall
  \/ FinalizeLoop
  \/ \E i \in pending : Resolve(i)
  \/ \E i \in pending : Reject(i)
  \/ FinalizeAssign
  \/ FinalizeReject
  \/ \E args \in ConstructorArgs : constructorNames(args)
  \/ \E m \in Modules : LoadNamesCall(m)
  \/ FinalizeNamesCall
  \/ FinalizeNamesResume

Spec == Init /\ [][Next]_vars

\* the same, with what the job queue guarantees: a finalize call that can
\* continue does; and with every contributor's promise settling in the end
SpecLive ==
  /\ Init /\ [][Next]_vars
  /\ WF_vars(FinalizeLoop)
  /\ WF_vars(FinalizeAssign)
  /\ WF_vars(FinalizeReject)
  /\ WF_vars(FinalizeNamesResume)
  /\ WF_vars(\E i \in pending : Resolve(i))
  /\ WF_vars(\E i \in pending : Reject(i))

(***************************************************************************)
(* Vocabulary of the properties.                                           *)
(***************************************************************************)
\* the buckets and kind names of whichever loader was constructed
CurBuckets == IF loader = "names" THEN pluginMap ELSE loaded
KindNames == IF loader = "names" THEN pluginNames ELSE exportNames(registered)

\* the bucket of a kind; empty for a kind that has none
Bucket(name) == IF MapHas(CurBuckets, name) THEN MapGet(CurBuckets, name) ELSE <<>>

\* the step is a load call; its argument
IsLoadStep == Len(calls') = Len(calls) + 1
LoadArg == calls'[Len(calls')]

IsNonNullObject(v) == v.t \in {"object", "array"}
IsPrefix(a, b) == Len(a) <= Len(b) /\ SubSeq(b, 1, Len(a)) = a
Occurs(seq, x) == \E i \in 1..Len(seq) : seq[i] = x

\* a value normalized to a sequence
Normalized(v) == IF v.t = "array" THEN v.items ELSE <<v>>

\* what one root-hook contribution supplies for a lifecycle key
Contributes(c, key) ==
  LET o == IF c.t = "function" THEN Call(c).value ELSE c
  IN IF o.t = "object" /\ key \in DOMAIN o.props THEN Normalized(o.props[key])
     ELSE <<>>

\* what a module supplies for a lifecycle key through its mochaHooks export
Supplies(m, key) ==
  IF IsNonNullObject(m) /\ Truthy(Get(m, "mochaHooks"))
  THEN Contributes(Get(m, "mochaHooks"), key)
  ELSE <<>>

RECURSIVE ConcatSupplies(_, _)
ConcatSupplies(ms, key) ==
  IF ms = <<>> THEN <<>>
  ELSE ConcatSupplies(SubSeq(ms, 1, Len(ms) - 1), key) \o Supplies(ms[Len(ms)], key)

RECURSIVE ConcatContributes(_, _)
ConcatContributes(cs, key) ==
  IF cs = <<>> THEN <<>>
  ELSE ConcatContributes(SubSeq(cs, 1, Len(cs) - 1), key)
         \o Contributes(cs[Len(cs)], key)

\* no built-in validator rejects what the module exports
ValidModule(m) ==
  \A i \in 1..Len(MochaPlugins) :
    LET v == Get(m, MochaPlugins[i].exportName)
    IN Truthy(v) => ~ValidatorThrows(MochaPlugins[i].validate, v)

\* a finalize call has fulfilled and no load call was made since it began
FinalizedAfterLoads == pc = "done" /\ since = Len(calls)

\* the key of the output object a kind is surfaced under
OutputKey(name) ==
  IF loader = "registry" THEN optionKey(MapGet(registered, name), name)
  ELSE CASE name = PLUGIN_ROOT_HOOKS -> "rootHooks"
         [] name = PLUGIN_GLOBAL_SETUP -> "globalSetup"
         [] name = PLUGIN_GLOBAL_TEARDOWN -> "globalTeardown"
         [] OTHER -> name

(***************************************************************************)
(* C1: after valid modules M1..Mn were loaded in that order and finalize   *)
(* has fulfilled, every lifecycle sequence of rootHooks is the             *)
(* concatenation, in M1..Mn order, of what each module supplies for that   *)
(* key, whatever the order in which the contributions' promises settled.   *)
(***************************************************************************)
C1_RootHooksInContributionOrder ==
  (/\ FinalizedAfterLoads
   /\ MapHas(CurBuckets, "mochaHooks")
   /\ \A i \in 1..Len(calls) : ValidModule(calls[i]))
  => IF \E i \in 1..Len(calls) : Truthy(Get(calls[i], "mochaHooks"))
     THEN /\ "rootHooks" \in DOMAIN finalizedPlugins
          /\ \A key \in HookKeys :
               finalizedPlugins["rootHooks"][key] = ConcatSupplies(calls, key)
     ELSE "rootHooks" \notin DOMAIN finalizedPlugins

\* two asynchronous contributions settled in the reverse of load order
C1_Witness ==
  /\ FinalizedAfterLoads
  /\ Len(calls) = 2
  /\ Get(calls[1], "mochaHooks") = Fn("e")
  /\ Get(calls[2], "mochaHooks") = Fn("h")
  /\ order = <<2, 1>>
  /\ "rootHooks" \in DOMAIN finalizedPlugins
  /\ finalizedPlugins["rootHooks"]["afterEach"] = <<Fn("f"), Fn("g")>>

(***************************************************************************)
(* C2: load of a value that is not a non-null object returns false and     *)
(* leaves every bucket unchanged.                                          *)
(***************************************************************************)
C2_NonObjectLoadIsNoOp ==
  [][(IsLoadStep /\ ~IsNonNullObject(LoadArg))
       => (ret' = Return("load", FALSE) /\ CurBuckets' = CurBuckets)]_vars

C2_Witness ==
  /\ Len(calls) = 2
  /\ calls[2] \in NonObjects
  /\ ret = Return("load", FALSE)
  /\ \E i \in 1..Len(CurBuckets) : CurBuckets[i].value # <<>>

(***************************************************************************)
(* C3: load of an object that has no property named after a registered     *)
(* kind returns false and leaves every bucket unchanged.                   *)
(***************************************************************************)
NoKindProperty(m) ==
  IsNonNullObject(m) /\ \A i \in 1..Len(KindNames) : KindNames[i] \notin DOMAIN m.props

C3_UnrecognizedLoadIsNoOp ==
  [][(IsLoadStep /\ NoKindProperty(LoadArg))
       => (ret' = Return("load", FALSE) /\ CurBuckets' = CurBuckets)]_vars

C3_Witness ==
  /\ Len(calls) = 2
  /\ calls[2] = Obj("mochaBananaPhone" :> Fn("a"))
  /\ NoKindProperty(calls[2])
  /\ ret = Return("load", FALSE)
  /\ \E i \in 1..Len(CurBuckets) : CurBuckets[i].value # <<>>

(***************************************************************************)
(* C4: a load call that does not throw returns true if and only if the     *)
(* module has a truthy value under at least one registered kind name.      *)
(***************************************************************************)
HasTruthyKind(m) == \E i \in 1..Len(KindNames) : Truthy(Get(m, KindNames[i]))

C4_LoadReturnsFound ==
  [][(IsLoadStep /\ ret'.outcome = "return")
       => (ret'.op = "load" /\ (ret'.value <=> HasTruthyKind(LoadArg)))]_vars

\* true for a module whose only kind is the first registered one
C4_Witness ==
  /\ Len(calls) >= 1
  /\ calls[Len(calls)] = Obj("mochaHooks" :> HookSetA)
  /\ KindNames = PLUGIN_NAMES
  /\ ret = Return("load", TRUE)

(***************************************************************************)
(* C5: after a load that returned, the bucket of every registered kind the *)
(* module exports with a truthy value is its bucket before the call        *)
(* followed by the exported value normalized to a sequence.                *)
(***************************************************************************)
C5_LoadAppendsNormalized ==
  [][(IsLoadStep /\ ret'.outcome = "return")
       => \A i \in 1..Len(KindNames) :
            LET v == Get(LoadArg, KindNames[i])
            IN Truthy(v) =>
                 MapGet(CurBuckets', KindNames[i])
                   = MapGet(CurBuckets, KindNames[i]) \o Normalized(v)]_vars

\* an array export appended after an earlier module's single function
C5_Witness ==
  /\ Len(calls) = 2
  /\ Get(calls[1], "mochaGlobalSetup") = Fn("s2")
  /\ Get(calls[2], "mochaGlobalSetup") = Arr(<<Fn("s1"), Fn("s2")>>)
  /\ ret = Return("load", TRUE)
  /\ Bucket("mochaGlobalSetup") = <<Fn("s2"), Fn("s1"), Fn("s2")>>

(***************************************************************************)
(* C6: when a load call fails because a validator rejects the module's     *)
(* contribution, every bucket still starts with what earlier load calls    *)
(* accumulated, in the same order.                                         *)
(***************************************************************************)
C6_RejectionKeepsEarlier ==
  [][(IsLoadStep /\ ret'.outcome = "throw" /\ ret'.error = "unsupported")
       => /\ Len(CurBuckets') = Len(CurBuckets)
          /\ \A i \in 1..Len(CurBuckets) :
               /\ CurBuckets'[i].key = CurBuckets[i].key
               /\ IsPrefix(CurBuckets[i].value, CurBuckets'[i].value)]_vars

C6_Witness ==
  /\ Len(calls) = 2
  /\ calls[1] = Obj("mochaHooks" :> Fn("c"))
  /\ ret = Throw("load", "unsupported")
  /\ IsPrefix(<<Fn("c")>>, Bucket("mochaHooks"))

(***************************************************************************)
(* C7: registering a kind whose exportName is already registered fails     *)
(* with a name-conflict error and leaves the registry unchanged; a loader  *)
(* constructed from definitions with a duplicate exportName fails, and no  *)
(* load or finalize is ever called on it; the registered exportNames are   *)
(* pairwise distinct in every state.                                       *)
(***************************************************************************)
DistinctExportNames ==
  \A i, j \in 1..Len(registered) :
    registered[i].key = registered[j].key => i = j

HasDuplicate(defs) ==
  \E i, j \in 1..Len(defs) : i # j /\ defs[i].exportName = defs[j].exportName

C7_NameConflict ==
  /\ [](DistinctExportNames /\ (loader = "failed" => (calls = <<>> /\ pc = "idle")))
  /\ [][/\ \A plugin \in RegisterArgs :
            (RegisterCall(plugin) /\ MapHas(registered, plugin.exportName))
              => (registered' = registered
                  /\ ret' = Throw("register", "plugin name conflict"))
        /\ \A defs \in DefinitionLists :
            (constructor(defs) /\ HasDuplicate(defs))
              => (loader' = "failed"
                  /\ ret' = Throw("constructor", "plugin name conflict"))]_vars

C7_Witness ==
  /\ loader = "registry"
  /\ ret = Throw("register", "plugin name conflict")
  /\ exportNames(registered) = PLUGIN_NAMES

(***************************************************************************)
(* C8: for a kind whose bucket is empty at finalize, the kind's aggregator *)
(* is not invoked and the returned object has no key for the kind.         *)
(***************************************************************************)
C8_EmptyBucketAbsent ==
  FinalizedAfterLoads =>
    \A i \in 1..Len(CurBuckets) :
      CurBuckets[i].value = <<>> =>
        /\ ~Occurs(aggCalls, CurBuckets[i].key)
        /\ OutputKey(CurBuckets[i].key) \notin DOMAIN finalizedPlugins

\* the root-hook kind with an empty bucket, next to a surfaced kind
C8_Witness ==
  /\ FinalizedAfterLoads
  /\ Len(calls) >= 1
  /\ MapHas(CurBuckets, "mochaHooks")
  /\ Bucket("mochaHooks") = <<>>
  /\ aggCalls = <<>>
  /\ DOMAIN finalizedPlugins = {"globalSetup"}

(***************************************************************************)
(* C9: root-hook aggregation of an ordered list of contributions yields a  *)
(* four-key object whose every sequence is the concatenation, in list      *)
(* order, of what each contribution supplies (nothing for a missing key,   *)
(* one element for a bare callback, the elements of an array in order).    *)
(***************************************************************************)
ExampleHooks == <<HookSetA, HookSetB, Fn("c"), Fn("e")>>
ExampleResult ==
  [key \in HookKeys |->
     CASE key = "beforeAll" -> <<Fn("d")>>
       [] key = "beforeEach" -> <<Fn("a"), Fn("g")>>
       [] key = "afterAll" -> <<Fn("b")>>
       [] key = "afterEach" -> <<Fn("f")>>]

C9_AggregationFlattens ==
  pc = "fulfilled" =>
    /\ DOMAIN result = HookKeys
    /\ \A key \in HookKeys : result[key] = ConcatContributes(rootHooks, key)
    /\ (rootHooks = ExampleHooks => result = ExampleResult)

C9_Witness ==
  /\ pc = "fulfilled"
  /\ rootHooks = ExampleHooks
  /\ result = ExampleResult

Exports(m, name) ==
  IF IsNonNullObject(m) /\ Truthy(Get(m, name)) THEN Normalized(Get(m, name))
  ELSE <<>>

RECURSIVE ConcatExports(_, _)
ConcatExports(ms, name) ==
  IF ms = <<>> THEN <<>>
  ELSE ConcatExports(SubSeq(ms, 1, Len(ms) - 1), name) \o Exports(ms[Len(ms)], name)

SurfacedInOrder(name, key) ==
  IF ConcatExports(calls, name) # <<>>
  THEN key \in DOMAIN finalizedPlugins
       /\ finalizedPlugins[key] = ConcatExports(calls, name)
  ELSE key \notin DOMAIN finalizedPlugins

C12_FinalizeTwiceEqual ==
  previous.outcome = "done"
  => /\ pc # "rejected"
     /\ pc = "done" => finalizedPlugins = previous.value

\* the second call has fulfilled with aggregated root hooks and a setup
C12_Witness ==
  /\ previous.outcome = "done"
  /\ pc = "done"
  /\ DOMAIN finalizedPlugins = {"rootHooks", "globalSetup"}
  /\ finalizedPlugins["rootHooks"]["beforeEach"] # <<>>

(***************************************************************************)
(* C13: when a contributor function of the aggregated list throws, or the  *)
(* promise it returns rejects, finalize rejects with that failure: it      *)
(* never fulfills, nor goes on to a later kind, with an object merged from *)
(* the contributions that did resolve.                                     *)
(***************************************************************************)
FailingFns == {Fn("x"), Fn("y")}
ErrorOf(fn) == IF fn = Fn("x") THEN "x failed" ELSE "y failed"
FailingIn(seq) == {i \in 1..Len(seq) : seq[i] \in FailingFns}

\* the kinds whose bucket finalize hands to an aggregator
AggregatedKinds ==
  IF loader = "names" THEN {PLUGIN_ROOT_HOOKS}
  ELSE {registered[i].key : i \in {j \in 1..Len(registered) :
                                      Has(registered[j].value, "finalize")}}

C13_ContributorFailureRejects ==
  /\ (pc \in {"loop", "done"} /\ aggCalls # <<>>) => FailingIn(rootHooks) = {}
  /\ (pc = "rejected" /\ failure # "")
       => \E i \in FailingIn(rootHooks) : failure = ErrorOf(rootHooks[i])
  /\ FinalizedAfterLoads
       => \A name \in AggregatedKinds : FailingIn(Bucket(name)) = {}

\* finalize has rejected although an earlier contribution had resolved
C13_Witness ==
  /\ pc = "rejected"
  /\ failure = "y failed"
  /\ Len(rootHooks) = 2
  /\ rootHooks[2] = Fn("y")
  /\ DOMAIN resolved = {1}

(***************************************************************************)
(* C14: on a loader with the built-in validators, load fails with the      *)
(* "unsupported" error exactly when the module exports a truthy mochaHooks *)
(* that is an array or neither a function nor an object, or a truthy       *)
(* mochaGlobalSetup or mochaGlobalTeardown that is neither a function nor  *)
(* an array of functions only; every other value of these kinds passes.   *)
(***************************************************************************)
BadRootHooks(v) == IsArray(v) \/ TypeOf(v) \notin {"function", "object"}
BadFixture(v) ==
  ~(\/ TypeOf(v) = "function"
    \/ (IsArray(v) /\ \A i \in 1..Len(v.items) : TypeOf(v.items[i]) = "function"))

BadShape(m) ==
  \/ (Truthy(Get(m, "mochaHooks")) /\ BadRootHooks(Get(m, "mochaHooks")))
  \/ (Truthy(Get(m, "mochaGlobalSetup")) /\ BadFixture(Get(m, "mochaGlobalSetup")))
  \/ (Truthy(Get(m, "mochaGlobalTeardown"))
      /\ BadFixture(Get(m, "mochaGlobalTeardown")))

\* the three built-in kinds are registered, each with its built-in validator
BuiltInValidators ==
  \/ /\ loader = "registry"
     /\ \A i \in 1..Len(MochaPlugins) :
          /\ MapHas(registered, MochaPlugins[i].exportName)
          /\ MapGet(registered, MochaPlugins[i].exportName) = MochaPlugins[i]
  \/ /\ loader = "names"
     /\ pluginNames = PLUGIN_NAMES
     /\ pluginValidators = PluginValidators

C14_BuiltInValidators ==
  [][(IsLoadStep /\ BuiltInValidators)
       => ((ret'.outcome = "throw" /\ ret'.error = "unsupported")
             <=> (IsNonNullObject(LoadArg) /\ BadShape(LoadArg)))]_vars

\* a teardown that is a number was refused after a valid module was loaded
C14_Witness ==
  /\ BuiltInValidators
  /\ Len(calls) = 2
  /\ ValidModule(calls[1])
  /\ calls[2] = Obj("mochaGlobalTeardown" :> Num(42))
  /\ ret = Throw("load", "unsupported")

(***************************************************************************)
(* C15: in one load call a kind's validator is invoked at most once, with  *)
(* the raw exported value and with the kind's bucket as it was before the  *)
(* call, only for a registered kind that has a validator and that the      *)
(* module exports with a truthy value, in registration order; a load that  *)
(* returns has invoked it for every such kind, a load that throws for      *)
(* every such kind up to the one it threw at.                              *)
(***************************************************************************)
HasValidator(name) ==
  IF loader = "names" THEN name \in DOMAIN pluginValidators
  ELSE MapHas(registered, name) /\ Has(MapGet(registered, name), "validate")

\* position of a kind in registration order (0 when it is not registered)
KindIndex(name) ==
  IF \E i \in 1..Len(KindNames) : KindNames[i] = name
  THEN CHOOSE i \in 1..Len(KindNames) : KindNames[i] = name
  ELSE 0

\* the registered kinds whose validator a load of m has to invoke
ToValidate(m) ==
  {i \in 1..Len(KindNames) :
     HasValidator(KindNames[i]) /\ Truthy(Get(m, KindNames[i]))}

ValidatedKinds(log) == {KindIndex(log[j].kind) : j \in 1..Len(log)}

BuiltInKinds == <<"mochaHooks", "mochaGlobalSetup", "mochaGlobalTeardown">>
AllEmpty(m) == \A i \in 1..Len(m) : m[i].value = <<>>
NamesOf(defs) == [i \in 1..Len(defs) |-> defs[i].exportName]

C16_FreshLoaderBuckets ==
  [][/\ (loader = "none" /\ loader' \in {"registry", "names"})
          => /\ MapKeys(CurBuckets') = KindNames'
             /\ AllEmpty(CurBuckets')
     /\ \A defs \in DefinitionLists :
          (constructor(defs) /\ loader' = "registry")
            => MapKeys(loaded') = NamesOf(defs)
     /\ constructor(MochaPlugins) => MapKeys(loaded') = BuiltInKinds
     /\ \A args \in ConstructorArgs :
          constructorNames(args) => MapKeys(pluginMap') = args.pluginNames
     /\ \A args \in ConstructorArgs :
          (constructorNames(args) /\ args.pluginNames = PLUGIN_NAMES)
            => MapKeys(pluginMap') = BuiltInKinds]_vars

\* a loader constructed with the one kind mochaBananaPhone
C16_Witness ==
  /\ loader = "names"
  /\ ret = Return("constructor", FALSE)
  /\ calls = <<>>
  /\ pluginNames = <<"mochaBananaPhone">>
  /\ pluginMap = << [key |-> "mochaBananaPhone", value |-> <<>>] >>

(***************************************************************************)
(* C17: every key of the object finalize fulfills with is the optionName   *)
(* of a registered kind whose bucket is not empty, or the exportName of    *)
(* such a kind when its definition has no optionName; with the default     *)
(* kinds the keys are among rootHooks, globalSetup and globalTeardown.     *)
(***************************************************************************)
\* the key a kind is to be surfaced under
ExpectedKey(name) ==
  IF loader = "registry"
  THEN LET def == MapGet(registered, name)
       IN IF "optionName" \in DOMAIN def THEN def.optionName ELSE def.exportName
  ELSE IF name = "mochaHooks" THEN "rootHooks"
  ELSE IF name = "mochaGlobalSetup" THEN "globalSetup"
  ELSE IF name = "mochaGlobalTeardown" THEN "globalTeardown"
  ELSE name

C17_OutputKeys ==
  FinalizedAfterLoads
  => /\ \A key \in DOMAIN finalizedPlugins :
          \E i \in 1..Len(CurBuckets) :
            /\ CurBuckets[i].value # <<>>
            /\ key = ExpectedKey(CurBuckets[i].key)
     /\ KindNames = BuiltInKinds
          => DOMAIN finalizedPlugins \subseteq {"rootHooks", "globalSetup", "globalTeardown"}

\* a kind without optionName is surfaced under its exportName
C17_Witness ==
  /\ loader = "registry"
  /\ FinalizedAfterLoads
  /\ ~Has(MapGet(registered, "mochaBananaPhone"), "optionName")
  /\ DOMAIN finalizedPlugins = {"mochaBananaPhone"}

(***************************************************************************)
(* C18: the registry-based finalize takes the kinds in registration order: *)
(* the aggregators are invoked in that order, none is passed over, and     *)
(* when one is invoked every kind aggregated before it has been awaited    *)
(* and has its output key assigned.                                        *)
(***************************************************************************)
C18_RegistrationOrder ==
  (loader = "registry" /\ pc \in {"loop", "await", "done"})
  => /\ \A i, j \in 1..Len(aggCalls) :
          i < j => KindIndex(aggCalls[i]) < KindIndex(aggCalls[j])
     /\ \A j \in 1..Len(aggCalls) :
          (j < Len(aggCalls) \/ pc # "await")
            => ExpectedKey(aggCalls[j]) \in DOMAIN finalizedPlugins
     /\ (since = Len(calls) /\ aggCalls # <<>>)
          => \A name \in AggregatedKinds :
               (/\ Bucket(name) # <<>>
                /\ KindIndex(name) < KindIndex(aggCalls[Len(aggCalls)]))
                 => \E j \in 1..Len(aggCalls) : aggCalls[j] = name

\* the second aggregator is awaited and the first kind's key is assigned
C18_Witness ==
  /\ loader = "registry"
  /\ pc = "await"
  /\ pending # {}
  /\ aggCalls = <<"mochaBananaPhone", "mochaHooks">>
  /\ DOMAIN finalizedPlugins = {"mochaBananaPhone"}

(***************************************************************************)
(* C19: one load call changes the bucket of a kind only by appending what  *)
(* the module exports under that very kind: a load that returns has        *)
(* appended each exported kind's contribution to its own bucket, and the   *)
(* bucket of a kind the module does not export, or exports with a falsy    *)
(* value, is the same after the call, whether it returns or throws.        *)
(***************************************************************************)
C19_KindsAccumulateIndependently ==
  [][IsLoadStep
       => /\ MapKeys(CurBuckets') = MapKeys(CurBuckets)
          /\ \A i \in 1..Len(CurBuckets) :
               LET before == CurBuckets[i].value
                   after == CurBuckets'[i].value
                   own == Exports(LoadArg, CurBuckets[i].key)
               IN /\ after \in {before, before \o own}
                  /\ ret'.outcome = "return" => after = before \o own]_vars

\* a module exporting two kinds was loaded after one exporting two kinds,
\* one of them another: the teardown bucket is as the first load left it
C19_Witness ==
  /\ Len(calls) = 2
  /\ ret = Return("load", TRUE)
  /\ Get(calls[2], "mochaGlobalTeardown") = Undefined
  /\ Bucket("mochaHooks") = <<Fn("e")>>
  /\ Bucket("mochaGlobalSetup") = <<Fn("s1"), Fn("s2"), Fn("s2")>>
  /\ Bucket("mochaGlobalTeardown") = <<Fn("t1")>>

(***************************************************************************)
(* C20: aggregateRootHooks called with no argument or with an empty array  *)
(* has nothing to wait for and nothing that failed, and the call then      *)
(* settles by fulfilling with the hook set {beforeAll: [], beforeEach: [], *)
(* afterAll: [], afterEach: []}: it neither rejects nor fulfills with      *)
(* undefined.                                                              *)
(***************************************************************************)
EmptyHookSet ==
  [key \in {"beforeAll", "beforeEach", "afterAll", "afterEach"} |-> <<>>]

C21_FailedLoadChangesNothing ==
  [][(IsLoadStep /\ ret'.outcome = "throw" /\ ret'.error = "unsupported")
       => CurBuckets' = CurBuckets]_vars

(***************************************************************************)
(* C22: in every state of a constructed loader the kinds that have a       *)
(* bucket are exactly the registered kinds, and so a load call never       *)
(* fails for want of a bucket.                                             *)
(***************************************************************************)
KeySet(m) == {m[i].key : i \in 1..Len(m)}

C22_BucketPerRegisteredKind ==
  /\ loader = "registry" => KeySet(loaded) = KeySet(registered)
  /\ loader = "names" => KeySet(pluginMap) = {pluginNames[i] : i \in 1..Len(pluginNames)}
  /\ ret.op = "load" => ret.error # "TypeError"

(***************************************************************************)
(* C23: in one root-hook aggregation every function-valued contribution is *)
(* called exactly once and without arguments, all of them before the       *)
(* aggregator waits for any of them, so that they may settle in any order; *)
(* the merged value is assigned only once every contribution has resolved. *)
(***************************************************************************)
FunctionValued(seq) == {i \in 1..Len(seq) : seq[i].t = "function"}

CalledOnce ==
  /\ \A i \in FunctionValued(rootHooks) :
       /\ Cardinality({j \in 1..Len(invoked) : invoked[j].index = i}) = 1
       /\ \A j \in 1..Len(invoked) :
            invoked[j].index = i
              => (invoked[j].hook = rootHooks[i] /\ invoked[j].args = <<>>)
  /\ \A j \in 1..Len(invoked) : invoked[j].index \in FunctionValued(rootHooks)

C23_ContributorsCalledTogether ==
  [][/\ CalledOnce'
     /\ invoked' # invoked
          => (/\ pc' = "await"
              /\ pending' \subseteq FunctionValued(rootHooks')
              /\ \A i \in 1..Len(rootHooks') :
                   i \in pending' \/ i \in DOMAIN resolved' \/ failure' # "")
     /\ (pc = "await" /\ finalizedPlugins' # finalizedPlugins)
          => (pending = {} /\ DOMAIN resolved = 1..Len(rootHooks))]_vars

\* two asynchronous contributors were called and neither has settled
C23_Witness ==
  /\ pc = "await"
  /\ Len(rootHooks) = 2
  /\ pending = {1, 2}
  /\ Len(invoked) = 2
  /\ invoked[1].hook # invoked[2].hook

(***************************************************************************)
(* C24: when every contributor's promise settles in the end, a finalize    *)
(* call that was made settles in the end, fulfilled or rejected; and while *)
(* a contributor is pending and none has failed, no step settles the call. *)
(***************************************************************************)
InFlight == pc \in {"loop", "await"}

C24_FinalizeSettles ==
  /\ InFlight ~> (pc \in {"done", "rejected"})
  /\ [][(pc = "await" /\ pending # {} /\ failure = "") => pc' = "await"]_vars

\* a call has fulfilled after waiting for two asynchronous contributors
C24_Witness ==
  /\ pc = "done"
  /\ Len(order) = 2
  /\ \A i \in 1..2 : rootHooks[i] \in {Fn("e"), Fn("h")}

(***************************************************************************)
(* C25: no step of a finalize call, whether the call fulfills or rejects,  *)
(* changes the registry or a bucket; a bucket of a constructed loader      *)
(* changes in a load call only.                                            *)
(***************************************************************************)
FinalizeStep ==
  \/ InFlight
  \/ <<pc, k, since, finalizedPlugins, aggCalls>>'
       # <<pc, k, since, finalizedPlugins, aggCalls>>

C25_FinalizeReadsOnly ==
  [][/\ FinalizeStep
          => (/\ registered' = registered /\ loaded' = loaded
              /\ pluginNames' = pluginNames /\ pluginMap' = pluginMap
              /\ pluginValidators' = pluginValidators)
     /\ (loader # "none" /\ CurBuckets' # CurBuckets) => IsLoadStep]_vars

\* a call that aggregated three buckets' worth has fulfilled, and the
\* buckets are as the loads left them
C25_Witness ==
  /\ loader = "names"
  /\ FinalizedAfterLoads
  /\ DOMAIN finalizedPlugins = {"rootHooks", "globalSetup", "globalTeardown"}
  /\ Bucket("mochaHooks") # <<>>
  /\ Bucket("mochaGlobalSetup") = finalizedPlugins["globalSetup"]
  /\ Bucket("mochaGlobalTeardown") = finalizedPlugins["globalTeardown"]

(***************************************************************************)
(* C26: over every load call, returning or throwing, the kinds with a      *)
(* bucket stay the same and each kind's bucket before the call is a        *)
(* prefix of its bucket after the call.                                    *)
(***************************************************************************)
C26_LoadOnlyAppends ==
  [][IsLoadStep
       => /\ MapKeys(CurBuckets') = MapKeys(CurBuckets)
          /\ \A i \in 1..Len(CurBuckets) :
               LET name == CurBuckets[i].key
               IN IsPrefix(MapGet(CurBuckets, name), MapGet(CurBuckets', name))]_vars

\* a second load has returned after extending a bucket the first load filled
C26_Witness ==
  /\ Len(calls) = 2
  /\ ret.op = "load" /\ ret.outcome = "return"
  /\ calls[1] = Obj("mochaHooks" :> Fn("c"))
  /\ Len(Bucket("mochaHooks")) >= 2
  /\ Bucket("mochaHooks")[1] = Fn("c")

(***************************************************************************)
(* C27: a registry-based loader built with the default definitions and a   *)
(* name-list loader built with the default names and validators, given     *)
(* the same sequence of load calls, return or throw the same from every    *)
(* load and hold equal buckets; a finalize call on either rejects for the  *)
(* same buckets and with the same error, and fulfills with the same value  *)
(* under rootHooks.  The outputs differ only in globalSetup and            *)
(* globalTeardown, which the name-list loader surfaces for a non-empty     *)
(* bucket and the registry-based loader never does.                        *)
(***************************************************************************)
ExportNameOf(key) ==
  IF key = "globalSetup" THEN "mochaGlobalSetup" ELSE "mochaGlobalTeardown"

Outcome(r) == [outcome |-> r.outcome, value |-> r.value, error |-> r.error]

\* the buckets and the results of the load calls cs on a default loader of
\* each class
RECURSIVE RegistryRun(_)
RegistryRun(cs) ==
  LET reg == registerAll(MochaPlugins, 1, EmptyMap).registered
  IN IF cs = <<>>
     THEN [buckets |-> emptyBuckets(exportNames(reg)), results |-> <<>>]
     ELSE LET before == RegistryRun(SubSeq(cs, 1, Len(cs) - 1))
              r == load(reg, before.buckets, cs[Len(cs)])
          IN [buckets |-> r.loaded, results |-> Append(before.results, Outcome(r))]

RECURSIVE NamesRun(_)
NamesRun(cs) ==
  IF cs = <<>>
  THEN [buckets |-> emptyBuckets(PLUGIN_NAMES), results |-> <<>>]
  ELSE LET before == NamesRun(SubSeq(cs, 1, Len(cs) - 1))
           r == loadNames(PLUGIN_NAMES, PluginValidators, before.buckets, cs[Len(cs)])
       IN [buckets |-> r.loaded, results |-> Append(before.results, Outcome(r))]

DefaultLoader == KindNames = BuiltInKinds /\ BuiltInValidators

\* the same calls on the loader of the other class
OtherRun == IF loader = "registry" THEN NamesRun(calls) ELSE RegistryRun(calls)

\* the error of the first contributor of the bucket that fails at its call,
\* or else of the one that fails later
FirstFailure(b) ==
  IF \E i \in FailingIn(b) : b[i] = Fn("x") THEN "x failed" ELSE "y failed"

FinalizeSettled == pc \in {"done", "rejected"} /\ since = Len(calls) /\ since > 0

C27_LoadersAgree ==
  DefaultLoader =>
    /\ LET other == OtherRun
       IN /\ CurBuckets = other.buckets
          /\ (ret.op = "load" /\ calls # <<>>)
               => [outcome |-> ret.outcome, value |-> ret.value, error |-> ret.error]
                    = other.results[Len(calls)]
    /\ FinalizeSettled =>
         LET b == Bucket("mochaHooks")
         IN /\ pc = "rejected" <=> FailingIn(b) # {}
            /\ pc = "rejected" => failure = FirstFailure(b)
            /\ pc = "done" =>
                 /\ "rootHooks" \in DOMAIN finalizedPlugins <=> b # <<>>
                 /\ b # <<>> => finalizedPlugins["rootHooks"]
                                  = [key \in HookKeys |-> ConcatContributes(b, key)]
                 /\ \A key \in {"globalSetup", "globalTeardown"} :
                      key \in DOMAIN finalizedPlugins
                        <=> (loader = "names" /\ Bucket(ExportNameOf(key)) # <<>>)
                 /\ DOMAIN finalizedPlugins
                      \subseteq {"rootHooks", "globalSetup", "globalTeardown"}

\* a default registry-based loader has fulfilled a finalize call with root
\* hooks while its global setup bucket is not empty, after a load that threw
C27_Witness ==
  /\ loader = "registry"
  /\ DefaultLoader
  /\ FinalizedAfterLoads
  /\ Len(calls) = 2
  /\ ret = Throw("load", "unsupported")
  /\ Bucket("mochaGlobalSetup") # <<>>
  /\ DOMAIN finalizedPlugins = {"rootHooks"}

(***************************************************************************)
(* C28: while a kind is checked by its built-in validator, every element   *)
(* of the mochaGlobalSetup and mochaGlobalTeardown buckets is a function   *)
(* and every element of the mochaHooks bucket is a function or an object   *)
(* that is not an array.                                                   *)
(***************************************************************************)
\* the kind has a bucket and is checked by the validator the module defines
BuiltInValidated(name) ==
  /\ MapHas(CurBuckets, name)
  /\ IF loader = "registry"
     THEN /\ MapHas(registered, name)
          /\ \E i \in 1..Len(MochaPlugins) : MapGet(registered, name) = MochaPlugins[i]
     ELSE /\ name \in DOMAIN pluginValidators
          /\ pluginValidators[name] = PluginValidators[name]

AllFunctions(b) == \A i \in 1..Len(b) : TypeOf(b[i]) = "function"

FunctionsOrObjects(b) ==
  \A i \in 1..Len(b) :
    \/ TypeOf(b[i]) = "function"
    \/ (TypeOf(b[i]) = "object" /\ ~IsArray(b[i]) /\ b[i] # Null)

C28_BucketShapes ==
  /\ \A name \in {"mochaGlobalSetup", "mochaGlobalTeardown"} :
       AllFunctions(Bucket(name)) \/ ~BuiltInValidated(name)
  /\ FunctionsOrObjects(Bucket("mochaHooks")) \/ ~BuiltInValidated("mochaHooks")

\* an array of functions was accepted and spread into the setup bucket, next
\* to an object in the hooks bucket
C28_Witness ==
  /\ BuiltInValidated("mochaGlobalSetup")
  /\ BuiltInValidated("mochaHooks")
  /\ Len(Bucket("mochaGlobalSetup")) >= 2
  /\ \E i \in 1..Len(Bucket("mochaHooks")) : TypeOf(Bucket("mochaHooks")[i]) = "object"

(***************************************************************************)
(* C29: a load call alters no object finalize has returned: the Map always *)
(* holds, for each kind, an array with the bucket's contents, a load call  *)
(* puts a new array there instead of writing to the old one, and so every  *)
(* raw list handed out under globalSetup or globalTeardown still has the   *)
(* contents it was returned with, while the last returned object is as it  *)
(* was returned.                                                           *)
(***************************************************************************)
C29_ReturnedListsKept ==
  /\ loader = "names" =>
       /\ \A i \in 1..Len(pluginMap) : pluginMap[i].value = arrays[bucketArray[i]]
       /\ \A h \in handedOut : arrays[h.array] = h.contents
       /\ pc = "done" => \A key \in DOMAIN finalizedPlugins \cap {"globalSetup", "globalTeardown"} :
                           \E h \in handedOut : h.key = key /\ h.contents = finalizedPlugins[key]

\* a list was handed out under globalSetup, and a later load has extended
\* the bucket it came from
C29_Witness ==
  /\ loader = "names"
  /\ ret.op = "load"
  /\ \E h \in handedOut :
       /\ h.key = "globalSetup"
       /\ h.contents # <<>>
       /\ Len(Bucket("mochaGlobalSetup")) > Len(h.contents)
       /\ arrays[h.array] = h.contents

====
